---- MODULE Spec2Model ----
(***************************************************************************)
(* Model of the agentic-rag back end: the two process-wide singleton       *)
(* services (AgentService, FAISSService), the FastAPI dependencies that    *)
(* initialise them lazily, the /health handler, the /chat-stream event     *)
(* generator, the /chat handler with the message conversions around the    *)
(* agent executor, the tools and the customer store.                       *)
(*                                                                         *)
(* Synchronous dependencies (def get_agent_service / get_faiss_service)    *)
(* run on worker threads, so the statements of initialize() of different   *)
(* requests interleave: every write of a field another thread reads is a   *)
(* step of its own.  External calls (OpenAI, disk, network, SQLite) succeed *)
(* or raise nondeterministically.                                          *)
(***************************************************************************)
EXTENDS Integers, Sequences, FiniteSets, TLC

\* Number of request worker threads.
NumThreads == 2

\* Largest number of chunks the executor's astream yields in one run.
MaxChunks == 2

Threads == 1 .. NumThreads

\* The event-loop task that runs the lifespan start-up.
Main == 0

Procs == {Main} \cup Threads

\* The request task followed where one request is looked at alone.
StreamProc == 1

VARIABLES
    app,                  \* "created" | "starting" | "serving" | "failed"
    faiss_cache_enabled,  \* settings.faiss_cache_enabled
    cacheOnDisk,          \* settings.faiss_cache_path.exists()
    llm,                  \* AgentService.llm is not None
    tools,                \* AgentService.tools, as the sequence of tool names
    agent_executor,       \* AgentService.agent_executor: 0 is None, p+1 built by p
    embeddings,           \* FAISSService.embeddings is not None
    vectorstore,          \* FAISSService.vectorstore is not None
    retriever,            \* FAISSService.retriever is not None
    retriever_tool,       \* FAISSService.retriever_tool is not None
    pc,                   \* per task: the statement it is at
    stack,                \* per task: return addresses of the calls in progress
    rv,                   \* per task: value returned by the call that just ended
    resp,                 \* per task: the HTTP response of its last request
    demand,               \* the consumer awaits the generator's next event
    consumer,             \* "pulling" | "stopped" | "done"
    inner,                \* the AgentService.stream async generator
    astream,              \* the executor's astream async generator
    events,               \* events delivered to the consumer, in order
    chunks,               \* chunks yielded by AgentService.stream, in order
    faiss_tool_name,      \* settings.faiss_tool_name
    system_message,       \* AgentService.system_message ("" is None)
    request,              \* the ChatRequest of the /chat request in progress
    messages,             \* the message list handed to agent_executor.invoke
    result,               \* result["messages"] of agent_executor.invoke
    tool_call,            \* the tool invocation the executor is at, if any
    response,             \* the ChatResponse body of the last /chat request
    tools_info,           \* the list returned by get_tools_info()
    customers,            \* rows of the customers table
    returned,             \* what the last CustomerManager call returned
    sessions,             \* number of open SQLAlchemy sessions
    call,                 \* the CustomerManager operation in progress
    count_tool,           \* get_business_client_count_tool: its progress
    sanitized,            \* the last sanitize_message() call and its result
    extracted             \* a result list and what chat() and the helper make of it

agentVars == <<llm, tools, agent_executor>>

faissVars == <<embeddings, vectorstore, retriever, retriever_tool, cacheOnDisk>>

procVars == <<pc, stack, rv>>

streamVars == <<demand, consumer, inner, astream, events, chunks>>

settingsVars == <<faiss_cache_enabled, faiss_tool_name, system_message>>

chatVars == <<request, messages, result, tool_call, response, tools_info>>

storeVars == <<customers, returned, sessions, call, count_tool>>

\* The settings and the state the services and the stream do not touch.
helperVars == <<sanitized, extracted>>

envVars == <<settingsVars, chatVars, storeVars, helperVars>>

\* Everything but the customers table and its callers.
serviceVars == <<app, settingsVars, chatVars, agentVars, faissVars, procVars,
                 resp, streamVars>>

vars == <<app, faiss_cache_enabled, cacheOnDisk, llm, tools, agent_executor,
          embeddings, vectorstore, retriever, retriever_tool, pc, stack, rv,
          resp, demand, consumer, inner, astream, events, chunks,
          faiss_tool_name, system_message, request, messages, result,
          tool_call, response, tools_info, customers, returned, sessions,
          call, count_tool, sanitized, extracted>>

(***************************************************************************)
(* Tool names, in the order the loaders return them.                       *)
(***************************************************************************)
SearchToolNames == <<"ArxivSearch", "DuckDuckGoSearch", "WikipediaSearch">>

CrmToolNames == <<"get_business_client_by_id", "get_business_client_by_email",
                  "search_business_clients", "get_active_business_clients",
                  "get_business_client_count">>

SqlToolName == "query_music_database"

\* Default of settings.faiss_tool_name.
DefaultFaissToolName == "langsmith_search"

(***************************************************************************)
(* Control transfer of one task.                                           *)
(***************************************************************************)
Goto(t, l) ==
    /\ pc' = [pc EXCEPT ![t] = l]
    /\ UNCHANGED <<stack, rv>>

Call(t, entry, ret) ==
    /\ pc' = [pc EXCEPT ![t] = entry]
    /\ stack' = [stack EXCEPT ![t] = <<ret>> \o @]
    /\ rv' = [rv EXCEPT ![t] = "-"]

Return(t, v) ==
    /\ pc' = [pc EXCEPT ![t] = Head(stack[t])]
    /\ stack' = [stack EXCEPT ![t] = Tail(@)]
    /\ rv' = [rv EXCEPT ![t] = v]

\* The request ends: the response is sent and the task is free again.
Respond(t, r) ==
    /\ pc' = [pc EXCEPT ![t] = "idle"]
    /\ stack' = [stack EXCEPT ![t] = <<>>]
    /\ rv' = [rv EXCEPT ![t] = "-"]
    /\ resp' = [resp EXCEPT ![t] = r]

\* `via` tells a response the application sent for a request ("endpoint")
\* from the value of a handler function called by itself ("handler").
NoResponse ==
    [http |-> 0, via |-> "none", error |-> "none", status |-> "none",
     agent |-> "none", agentMsg |-> "none", faiss |-> "none", database |-> "none"]

ErrorResponse(code, name) ==
    [NoResponse EXCEPT !.http = code, !.via = "endpoint", !.error = name]

(***************************************************************************)
(* FAISSService                                                            *)
(***************************************************************************)

\* initialize(): the guard `if self.vectorstore is not None`.
FaissAlreadyInitialized == vectorstore

\* initialize(): the guard, then the URL list and the document load.
FaissInitCheck(t) ==
    /\ pc[t] = "fi_check"
    /\ IF FaissAlreadyInitialized
         THEN Return(t, "True")
         ELSE \E loaded \in BOOLEAN :
                IF loaded THEN Goto(t, "fi_vs") ELSE Return(t, "False")
    /\ UNCHANGED <<app, envVars, agentVars, faissVars, resp, streamVars>>

\* initialize(): OpenAIEmbeddings(...), then FAISS.from_documents(...).
FaissInitBuild(t) ==
    /\ pc[t] = "fi_vs"
    /\ \E outcome \in {"embeddings_raise", "index_raise", "ok"} :
         \/ /\ outcome = "embeddings_raise"
            /\ UNCHANGED <<embeddings, vectorstore>>
            /\ Return(t, "False")
         \/ /\ outcome = "index_raise"
            /\ embeddings' = TRUE
            /\ UNCHANGED vectorstore
            /\ Return(t, "False")
         \/ /\ outcome = "ok"
            /\ embeddings' = TRUE
            /\ vectorstore' = TRUE
            /\ Goto(t, IF faiss_cache_enabled THEN "fi_save" ELSE "fi_tool")
    /\ UNCHANGED <<app, envVars, agentVars, retriever, retriever_tool,
                   cacheOnDisk, resp, streamVars>>

\* initialize(): mkdir and vectorstore.save_local(cache_path).
FaissInitSave(t) ==
    /\ pc[t] = "fi_save"
    /\ \E saved \in BOOLEAN :
         IF saved
           THEN /\ cacheOnDisk' = TRUE
                /\ Goto(t, "fi_tool")
           ELSE /\ UNCHANGED cacheOnDisk
                /\ Return(t, "False")
    /\ UNCHANGED <<app, envVars, agentVars, embeddings, vectorstore,
                   retriever, retriever_tool, resp, streamVars>>

\* initialize(): as_retriever() and create_retriever_tool(...).
FaissInitTool(t) ==
    /\ pc[t] = "fi_tool"
    /\ retriever' = TRUE
    /\ retriever_tool' = TRUE
    /\ Return(t, "True")
    /\ UNCHANGED <<app, envVars, agentVars, embeddings, vectorstore,
                   cacheOnDisk, resp, streamVars>>

\* load_from_disk(): the guard, then cache_path.exists().
FaissLoadCheck(t) ==
    /\ pc[t] = "ld_check"
    /\ IF vectorstore
         THEN Return(t, "True")
         ELSE IF ~cacheOnDisk THEN Return(t, "False") ELSE Goto(t, "ld_vs")
    /\ UNCHANGED <<app, envVars, agentVars, faissVars, resp, streamVars>>

\* load_from_disk(): OpenAIEmbeddings(...), then FAISS.load_local(...).
FaissLoadIndex(t) ==
    /\ pc[t] = "ld_vs"
    /\ \E outcome \in {"embeddings_raise", "load_raise", "ok"} :
         \/ /\ outcome = "embeddings_raise"
            /\ UNCHANGED <<embeddings, vectorstore>>
            /\ Return(t, "False")
         \/ /\ outcome = "load_raise"
            /\ embeddings' = TRUE
            /\ UNCHANGED vectorstore
            /\ Return(t, "False")
         \/ /\ outcome = "ok"
            /\ embeddings' = TRUE
            /\ vectorstore' = TRUE
            /\ Goto(t, "ld_tool")
    /\ UNCHANGED <<app, envVars, agentVars, retriever, retriever_tool,
                   cacheOnDisk, resp, streamVars>>

\* load_from_disk(): as_retriever() and create_retriever_tool(...).
FaissLoadTool(t) ==
    /\ pc[t] = "ld_tool"
    /\ retriever' = TRUE
    /\ retriever_tool' = TRUE
    /\ Return(t, "True")
    /\ UNCHANGED <<app, envVars, agentVars, embeddings, vectorstore,
                   cacheOnDisk, resp, streamVars>>

\* get_retriever_tool(): `if self.retriever_tool is None`, cache first.
FaissGetRetrieverTool(t) ==
    /\ pc[t] = "gr_check"
    /\ IF ~retriever_tool
         THEN IF faiss_cache_enabled
                THEN Call(t, "ld_check", "gr_after_load")
                ELSE Call(t, "fi_check", "gr_ret")
         ELSE Goto(t, "gr_ret")
    /\ UNCHANGED <<app, envVars, agentVars, faissVars, resp, streamVars>>

\* get_retriever_tool(): `if not success: self.initialize()`.
FaissGetAfterLoad(t) ==
    /\ pc[t] = "gr_after_load"
    /\ IF rv[t] = "False"
         THEN Call(t, "fi_check", "gr_ret")
         ELSE /\ pc' = [pc EXCEPT ![t] = "gr_ret"]
              /\ rv' = [rv EXCEPT ![t] = "-"]
              /\ UNCHANGED stack
    /\ UNCHANGED <<app, envVars, agentVars, faissVars, resp, streamVars>>

\* get_retriever_tool(): `return self.retriever_tool`.
FaissGetReturn(t) ==
    /\ pc[t] = "gr_ret"
    /\ Return(t, IF retriever_tool THEN "Tool" ELSE "NoTool")
    /\ UNCHANGED <<app, envVars, agentVars, faissVars, resp, streamVars>>

\* FAISSService.is_ready()
FaissIsReady == retriever_tool

FaissStep(t) ==
    \/ FaissInitCheck(t)
    \/ FaissInitBuild(t)
    \/ FaissInitSave(t)
    \/ FaissInitTool(t)
    \/ FaissLoadCheck(t)
    \/ FaissLoadIndex(t)
    \/ FaissLoadTool(t)
    \/ FaissGetRetrieverTool(t)
    \/ FaissGetAfterLoad(t)
    \/ FaissGetReturn(t)

(***************************************************************************)
(* AgentService                                                            *)
(***************************************************************************)

\* initialize(): the guard `if self.agent_executor is not None`.
AgentAlreadyInitialized_Never == FALSE

AgentAlreadyInitialized == agent_executor # 0

\* The tools of the three sources that cannot be absent.
BaseTools == SearchToolNames \o CrmToolNames \o <<SqlToolName>>

\* initialize(): the guard.
AgentInitCheck(t) ==
    /\ pc[t] = "ai_check"
    /\ IF AgentAlreadyInitialized THEN Return(t, "True") ELSE Goto(t, "ai_llm")
    /\ UNCHANGED <<app, envVars, agentVars, faissVars, resp, streamVars>>

\* initialize(): ChatOpenAI(...), the search, CRM and SQL tools, then the
\* call of faiss_service.get_retriever_tool().  get_all_search_tools()
\* re-raises what a search tool constructor raises.
AgentInitLLM(t) ==
    /\ pc[t] = "ai_llm"
    /\ \E outcome \in {"llm_raise", "search_raise", "ok"} :
         \/ /\ outcome = "llm_raise"
            /\ UNCHANGED llm
            /\ Return(t, "False")
         \/ /\ outcome = "search_raise"
            /\ llm' = TRUE
            /\ Return(t, "False")
         \/ /\ outcome = "ok"
            /\ llm' = TRUE
            /\ Call(t, "gr_check", "ai_tools")
    /\ UNCHANGED <<app, envVars, tools, agent_executor, faissVars,
                   resp, streamVars>>

\* initialize(): `self.tools = search_tools + crm_tools + [sql_tool]`.
AgentInitTools(t) ==
    /\ pc[t] = "ai_tools"
    /\ tools' = BaseTools
    /\ pc' = [pc EXCEPT ![t] = IF rv[t] = "Tool" THEN "ai_append" ELSE "ai_exec"]
    /\ rv' = [rv EXCEPT ![t] = "-"]
    /\ UNCHANGED <<app, envVars, llm, agent_executor, faissVars,
                   stack, resp, streamVars>>

\* initialize(): `if retriever_tool: self.tools.append(retriever_tool)`,
\* on the list self.tools names at that moment.
AgentInitAppend(t) ==
    /\ pc[t] = "ai_append"
    /\ tools' = Append(tools, faiss_tool_name)
    /\ Goto(t, "ai_exec")
    /\ UNCHANGED <<app, envVars, llm, agent_executor, faissVars,
                   resp, streamVars>>

\* initialize(): create_react_agent(self.llm, tools=self.tools).
AgentInitExecutor(t) ==
    /\ pc[t] = "ai_exec"
    /\ \E created \in BOOLEAN :
         IF created
           THEN /\ agent_executor' = t + 1
                /\ Return(t, "True")
           ELSE /\ UNCHANGED agent_executor
                /\ Return(t, "False")
    /\ UNCHANGED <<app, envVars, llm, tools, faissVars, resp, streamVars>>

\* AgentService.is_ready()
AgentIsReady == agent_executor # 0

AgentStep(t) ==
    \/ AgentInitCheck(t)
    \/ AgentInitLLM(t)
    \/ AgentInitTools(t)
    \/ AgentInitAppend(t)
    \/ AgentInitExecutor(t)

(***************************************************************************)
(* Application start-up                                                    *)
(***************************************************************************)

\* lifespan(): faiss_service.initialize() inside try/except.
LifespanStart ==
    /\ app = "created"
    /\ pc[Main] = "idle"
    /\ app' = "starting"
    /\ Call(Main, "fi_check", "ls_agent")
    /\ UNCHANGED <<envVars, agentVars, faissVars, resp, streamVars>>

\* lifespan(): agent_success = agent_service.initialize().
LifespanAgent ==
    /\ pc[Main] = "ls_agent"
    /\ Call(Main, "ai_check", "ls_after")
    /\ UNCHANGED <<app, envVars, agentVars, faissVars, resp, streamVars>>

\* lifespan(): `if not agent_success: raise RuntimeError`, else yield.
LifespanAfter ==
    /\ pc[Main] = "ls_after"
    /\ app' = IF rv[Main] = "True" THEN "serving" ELSE "failed"
    /\ pc' = [pc EXCEPT ![Main] = "idle"]
    /\ rv' = [rv EXCEPT ![Main] = "-"]
    /\ UNCHANGED <<envVars, agentVars, faissVars, stack, resp, streamVars>>

\* The app serves requests without its lifespan having run: TestClient(app)
\* used without a `with` block.
ServeWithoutLifespan ==
    /\ app = "created"
    /\ pc[Main] = "idle"
    /\ app' = "serving"
    /\ UNCHANGED <<envVars, agentVars, faissVars, procVars, resp, streamVars>>

Lifespan ==
    \/ LifespanStart
    \/ LifespanAgent
    \/ LifespanAfter
    \/ ServeWithoutLifespan

(***************************************************************************)
(* Dependencies                                                            *)
(***************************************************************************)

\* get_agent_service(): `if not agent_service.is_ready(): initialize()`.
\* The endpoint's continuation is on the stack.
DepAgent(t) ==
    /\ pc[t] = "da_check"
    /\ IF ~AgentIsReady
         THEN Call(t, "ai_check", "da_after")
         ELSE Return(t, "-")
    /\ UNCHANGED <<app, envVars, agentVars, faissVars, resp, streamVars>>

\* get_agent_service() without its `if not success` test.
DepAgentAfter_Proceeds(t) ==
    /\ pc[t] = "da_after"
    /\ Return(t, "-")
    /\ UNCHANGED <<app, envVars, agentVars, faissVars, resp, streamVars>>

\* get_agent_service(): `if not success: raise HTTPException(503)`;
\* http_exception_handler turns it into the response.
DepAgentAfter(t) ==
    /\ pc[t] = "da_after"
    /\ IF rv[t] = "False"
         THEN Respond(t, ErrorResponse(503, "HTTPException"))
         ELSE /\ Return(t, "-")
              /\ UNCHANGED resp
    /\ UNCHANGED <<app, envVars, agentVars, faissVars, streamVars>>

\* get_faiss_service(): `if not faiss_service.is_ready(): initialize()`.
DepFaiss(t) ==
    /\ pc[t] = "df_check"
    /\ IF ~FaissIsReady
         THEN Call(t, "fi_check", "df_after")
         ELSE Return(t, "-")
    /\ UNCHANGED <<app, envVars, agentVars, faissVars, resp, streamVars>>

\* get_faiss_service(): a failed initialisation is only logged.
DepFaissAfter(t) ==
    /\ pc[t] = "df_after"
    /\ Return(t, "-")
    /\ UNCHANGED <<app, envVars, agentVars, faissVars, resp, streamVars>>

\* get_customer_manager(): CustomerManager(db_uri) runs create_engine and
\* Base.metadata.create_all, which connects; what it raises reaches
\* general_exception_handler.
DepCustomerManager(t) ==
    /\ pc[t] = "dc"
    /\ \E connected \in BOOLEAN :
         IF connected
           THEN /\ Goto(t, "h_handler")
                /\ UNCHANGED resp
           ELSE Respond(t, ErrorResponse(500, "OperationalError"))
    /\ UNCHANGED <<app, envVars, agentVars, faissVars, streamVars>>

DepAgentStep(t) ==
    \/ DepAgent(t)
    \/ DepAgentAfter(t)

DepFaissStep(t) ==
    \/ DepFaiss(t)
    \/ DepFaissAfter(t)

\* A worker thread runs get_agent_service() for a request whose endpoint
\* declares AgentServiceDep (/chat, /chat-stream, /tools, /health).
WorkerGetAgentService(t) ==
    /\ app = "serving"
    /\ pc[t] = "idle"
    /\ resp' = [resp EXCEPT ![t] = NoResponse]
    /\ Call(t, "da_check", "idle")
    /\ UNCHANGED <<app, envVars, agentVars, faissVars, streamVars>>

\* A worker thread runs get_faiss_service() for a /health request.
WorkerGetFaissService(t) ==
    /\ app = "serving"
    /\ pc[t] = "idle"
    /\ resp' = [resp EXCEPT ![t] = NoResponse]
    /\ Call(t, "df_check", "idle")
    /\ UNCHANGED <<app, envVars, agentVars, faissVars, streamVars>>

(***************************************************************************)
(* GET /health                                                             *)
(***************************************************************************)
AgentProbes == {"ready", "notready", "raises"}

FaissProbes == {"ready", "notready", "raises"}

DatabaseProbes == {"ok", "raises"}

\* health(): overall_status after the agent block, entered with HEALTHY.
HealthAgentCheck_KeepsHealthy(probe) ==
    IF probe = "raises" THEN "unhealthy" ELSE "healthy"

HealthAgentCheck(probe) ==
    IF probe = "ready" THEN "healthy"
    ELSE IF probe = "notready" THEN "degraded"
    ELSE "unhealthy"

\* health(): overall_status after the FAISS block: no branch assigns it.
HealthFaissCheck_MarksUnhealthy(probe, overall) ==
    IF probe = "ready" THEN overall ELSE "unhealthy"

HealthFaissCheck(probe, overall) == overall

\* health(): overall_status after the database block.
HealthDatabaseCheck(probe, overall) ==
    IF probe = "ok" THEN overall ELSE "unhealthy"

\* health(): the HealthResponse for the three checks' outcomes.
health(a, f, d) ==
    [http |-> 200,
     via |-> "handler",
     error |-> "none",
     status |-> HealthDatabaseCheck(d, HealthFaissCheck(f, HealthAgentCheck(a))),
     agent |-> IF a = "ready" THEN "healthy" ELSE "unhealthy",
     agentMsg |-> IF a = "ready" THEN "Agent service operational"
                  ELSE IF a = "notready" THEN "Agent service not initialized"
                  ELSE "Agent service error",
     faiss |-> IF f = "ready" THEN "healthy" ELSE "degraded",
     database |-> IF d = "ok" THEN "healthy" ELSE "unhealthy"]

\* GET /health arrives: the dependencies are resolved in parameter order,
\* agent first.
RequestHealth(t) ==
    /\ app = "serving"
    /\ pc[t] = "idle"
    /\ resp' = [resp EXCEPT ![t] = NoResponse]
    /\ Call(t, "da_check", "h_dep_faiss")
    /\ UNCHANGED <<app, envVars, agentVars, faissVars, streamVars>>

\* The second parameter of health(): FAISSServiceDep.
HealthDepFaiss(t) ==
    /\ pc[t] = "h_dep_faiss"
    /\ Call(t, "df_check", "dc")
    /\ UNCHANGED <<app, envVars, agentVars, faissVars, resp, streamVars>>

\* health() on the singletons the dependencies returned.
HealthHandler(t) ==
    /\ pc[t] = "h_handler"
    /\ \E d \in DatabaseProbes :
         Respond(t, [health(IF AgentIsReady THEN "ready" ELSE "notready",
                            IF FaissIsReady THEN "ready" ELSE "notready",
                            d) EXCEPT !.via = "endpoint"])
    /\ UNCHANGED <<app, envVars, agentVars, faissVars, streamVars>>

\* health(agent, faiss, customer_db) called with collaborators supplied by
\* the caller (dependency overrides, stubs): each check can answer anything.
HealthHandlerDirect(t) ==
    /\ pc[t] = "idle"
    /\ \E a \in AgentProbes, f \in FaissProbes, d \in DatabaseProbes :
         Respond(t, health(a, f, d))
    /\ UNCHANGED <<app, envVars, agentVars, faissVars, streamVars>>

HealthStep(t) ==
    \/ RequestHealth(t)
    \/ HealthDepFaiss(t)
    \/ DepCustomerManager(t)
    \/ HealthHandler(t)
    \/ HealthHandlerDirect(t)

(***************************************************************************)
(* POST /chat-stream                                                       *)
(*                                                                         *)
(* event_generator() and AgentService.stream() are async generators: they  *)
(* run only while the consumer awaits the next event (demand), and stop at *)
(* each yield.                                                             *)
(***************************************************************************)

\* The keys a chunk of the executor's astream may carry.
ChunkKeySets == SUBSET {"agent", "tools"}

\* Places where event_generator() is suspended (or not yet started).
GenSuspended == {"cs_created", "cs_y_start", "cs_y_chunk", "cs_y_end", "cs_y_error"}

StreamResponse == [NoResponse EXCEPT !.http = 200, !.via = "endpoint"]

Event(type, data) == [event |-> type, data |-> data]

\* event_generator(): the event type of a chunk, by its keys.
EventTypeOf(keys) ==
    IF "agent" \in keys THEN "agent"
    ELSE IF "tools" \in keys THEN "tool"
    ELSE "agent"

\* POST /chat-stream arrives: AgentServiceDep is resolved first.  The model
\* follows one run at a time: the generators of the previous one are gone.
RequestChatStream(t) ==
    /\ app = "serving"
    /\ pc[t] = "idle"
    /\ inner # "suspended"
    /\ astream # "suspended"
    /\ resp' = [resp EXCEPT ![t] = NoResponse]
    /\ demand' = FALSE
    /\ consumer' = "none"
    /\ inner' = "none"
    /\ astream' = "none"
    /\ events' = <<>>
    /\ chunks' = <<>>
    /\ Call(t, "da_check", "cs_handler")
    /\ UNCHANGED <<app, envVars, agentVars, faissVars>>

\* chat_stream(): returns StreamingResponse(event_generator(), ...).
ChatStreamHandler(t) ==
    /\ pc[t] = "cs_handler"
    /\ pc' = [pc EXCEPT ![t] = "cs_created"]
    /\ resp' = [resp EXCEPT ![t] = StreamResponse]
    /\ consumer' = "pulling"
    /\ UNCHANGED <<app, envVars, agentVars, faissVars, stack, rv,
                   demand, inner, astream, events, chunks>>

\* The response's body iterator asks for the next event.
ConsumerPull(t) ==
    /\ consumer = "pulling"
    /\ ~demand
    /\ pc[t] \in GenSuspended
    /\ demand' = TRUE
    /\ UNCHANGED <<app, envVars, agentVars, faissVars, procVars, resp,
                   consumer, inner, astream, events, chunks>>

\* event_generator(): `yield` of the start event.
GenStart(t) ==
    /\ pc[t] = "cs_created"
    /\ demand
    /\ events' = Append(events, Event("start", 0))
    /\ demand' = FALSE
    /\ Goto(t, "cs_y_start")
    /\ UNCHANGED <<app, envVars, agentVars, faissVars, resp,
                   consumer, inner, astream, chunks>>

\* event_generator(): the history conversion and the first step of
\* `async for chunk in agent.stream(...)`; stream(): `if self.agent_executor
\* is None: self.initialize()`.
GenEnterStream(t) ==
    /\ pc[t] = "cs_y_start"
    /\ demand
    /\ inner' = "running"
    /\ IF ~AgentIsReady
         THEN Call(t, "ai_check", "as_build")
         ELSE Goto(t, "as_build")
    /\ UNCHANGED <<app, envVars, agentVars, faissVars, resp,
                   demand, consumer, astream, events, chunks>>

\* stream(): the message list and `self.agent_executor.astream(...)`; with
\* agent_executor None that raises AttributeError, which stream() re-raises.
StreamBuild(t) ==
    /\ pc[t] = "as_build"
    /\ IF AgentIsReady
         THEN /\ astream' = "created"
              /\ UNCHANGED inner
              /\ pc' = [pc EXCEPT ![t] = "as_next"]
         ELSE /\ inner' = "raised"
              /\ UNCHANGED astream
              /\ pc' = [pc EXCEPT ![t] = "cs_except"]
    /\ rv' = [rv EXCEPT ![t] = "-"]
    /\ UNCHANGED <<app, envVars, agentVars, faissVars, stack, resp,
                   demand, consumer, events, chunks>>

\* stream(): one step of `async for chunk in astream: yield chunk`.
StreamNext(t) ==
    /\ pc[t] = "as_next"
    /\ demand
    /\ \/ /\ Len(chunks) < MaxChunks
          /\ \E keys \in ChunkKeySets : chunks' = Append(chunks, keys)
          /\ astream' = "suspended"
          /\ inner' = "suspended"
          /\ Goto(t, "cs_emit")
       \/ /\ astream' = "finished"
          /\ inner' = "finished"
          /\ UNCHANGED chunks
          /\ Goto(t, "cs_end")
       \/ /\ astream' = "raised"
          /\ inner' = "raised"
          /\ UNCHANGED chunks
          /\ Goto(t, "cs_except")
    /\ UNCHANGED <<app, envVars, agentVars, faissVars, resp,
                   demand, consumer, events>>

\* event_generator(): the loop body: StreamEvent(event=..., data=chunk) and
\* `yield` of its JSON; model_dump_json() of a chunk may raise.
GenEmitChunk(t) ==
    /\ pc[t] = "cs_emit"
    /\ \E dumped \in BOOLEAN :
         IF dumped
           THEN /\ events' = Append(events,
                                    Event(EventTypeOf(chunks[Len(chunks)]), Len(chunks)))
                /\ demand' = FALSE
                /\ Goto(t, "cs_y_chunk")
           ELSE /\ UNCHANGED <<events, demand>>
                /\ Goto(t, "cs_except")
    /\ UNCHANGED <<app, envVars, agentVars, faissVars, resp,
                   consumer, inner, astream, chunks>>

\* event_generator(): resumed after a chunk event, it asks stream() for the
\* next chunk.
GenResume(t) ==
    /\ pc[t] = "cs_y_chunk"
    /\ demand
    /\ inner' = "running"
    /\ Goto(t, "as_next")
    /\ UNCHANGED <<app, envVars, agentVars, faissVars, resp,
                   demand, consumer, astream, events, chunks>>

\* event_generator(): `yield` of the end event after the loop.
GenEnd(t) ==
    /\ pc[t] = "cs_end"
    /\ events' = Append(events, Event("end", 0))
    /\ demand' = FALSE
    /\ Goto(t, "cs_y_end")
    /\ UNCHANGED <<app, envVars, agentVars, faissVars, resp,
                   consumer, inner, astream, chunks>>

\* event_generator(): `except Exception`: `yield` of the error event.
GenOnException_Continues(t) ==
    /\ pc[t] = "cs_except"
    /\ events' = Append(events, Event("error", 0))
    /\ demand' = FALSE
    /\ Goto(t, "cs_y_chunk")
    /\ UNCHANGED <<app, envVars, agentVars, faissVars, resp,
                   consumer, inner, astream, chunks>>

GenOnException(t) ==
    /\ pc[t] = "cs_except"
    /\ events' = Append(events, Event("error", 0))
    /\ demand' = FALSE
    /\ Goto(t, "cs_y_error")
    /\ UNCHANGED <<app, envVars, agentVars, faissVars, resp,
                   consumer, inner, astream, chunks>>

\* event_generator(): resumed after its last yield, it returns.
GenFinish(t) ==
    /\ pc[t] \in {"cs_y_end", "cs_y_error"}
    /\ demand
    /\ demand' = FALSE
    /\ consumer' = "done"
    /\ Goto(t, "idle")
    /\ UNCHANGED <<app, envVars, agentVars, faissVars, resp,
                   inner, astream, events, chunks>>

\* The client disconnects while the response waits to send an event: the
\* generator is suspended at a yield and is not resumed again.
ConsumerDisconnect(t) ==
    /\ consumer = "pulling"
    /\ ~demand
    /\ pc[t] \in GenSuspended
    /\ consumer' = "stopped"
    /\ UNCHANGED <<app, envVars, agentVars, faissVars, procVars, resp,
                   demand, inner, astream, events, chunks>>

\* The client disconnects while the generators await the executor: the
\* CancelledError is no Exception, so neither `except Exception` handles
\* it and it unwinds astream, stream() and event_generator().
ConsumerCancel(t) ==
    /\ consumer = "pulling"
    /\ demand
    /\ pc[t] = "as_next"
    /\ consumer' = "stopped"
    /\ demand' = FALSE
    /\ astream' = "closed"
    /\ inner' = "closed"
    /\ Goto(t, "idle")
    /\ UNCHANGED <<app, envVars, agentVars, faissVars, resp,
                   events, chunks>>

\* The suspended event_generator() is closed: GeneratorExit is raised at its
\* yield, which is no Exception either.  The `async for` has no finally or
\* aclose(), so the stream() generator it was iterating is left as it is.
GenClose(t) ==
    /\ consumer = "stopped"
    /\ pc[t] \in GenSuspended
    /\ Goto(t, "idle")
    /\ UNCHANGED <<app, envVars, agentVars, faissVars, resp,
                   streamVars>>

\* The abandoned stream() generator is closed by the interpreter's
\* finaliser: GeneratorExit at `yield chunk`; its own `async for` leaves
\* the astream generator as it is.
FinalizeStream(t) ==
    /\ pc[t] = "idle"
    /\ inner = "suspended"
    /\ inner' = "closed"
    /\ UNCHANGED <<app, envVars, agentVars, faissVars, procVars, resp,
                   demand, consumer, astream, events, chunks>>

\* The abandoned astream generator is closed by the interpreter's finaliser.
FinalizeAstream(t) ==
    /\ pc[t] = "idle"
    /\ inner = "closed"
    /\ astream = "suspended"
    /\ astream' = "closed"
    /\ UNCHANGED <<app, envVars, agentVars, faissVars, procVars, resp,
                   demand, consumer, inner, events, chunks>>

StreamStep(t) ==
    \/ RequestChatStream(t)
    \/ ChatStreamHandler(t)
    \/ ConsumerPull(t)
    \/ GenStart(t)
    \/ GenEnterStream(t)
    \/ StreamBuild(t)
    \/ StreamNext(t)
    \/ GenEmitChunk(t)
    \/ GenResume(t)
    \/ GenEnd(t)
    \/ GenOnException(t)
    \/ GenFinish(t)
    \/ ConsumerDisconnect(t)
    \/ ConsumerCancel(t)
    \/ GenClose(t)
    \/ FinalizeStream(t)
    \/ FinalizeAstream(t)

(***************************************************************************)
(* POST /chat: message conversions around the agent executor               *)
(***************************************************************************)

\* Longest conversation_history a request carries.
MaxHistory == 2

\* Most tool calls the model asks for in one run.
MaxToolCalls == 1

\* MessageRole
Roles == {"user", "assistant", "system"}

\* The texts of the history entries, by position, and of the new message:
\* all different, so that a dropped, moved or altered entry shows.
ContentAt == <<"c1", "c2", "c3", "c4">>

NewMessage == "q"

\* ConversationMessage
WireEntry(role, content) == [role |-> role, content |-> content]

\* The values of ChatRequest.conversation_history: every sequence of roles
\* up to MaxHistory entries.
Histories ==
    UNION {{[i \in 1 .. n |-> WireEntry(rs[i], ContentAt[i])] : rs \in [1 .. n -> Roles]} :
             n \in 0 .. MaxHistory}

\* Values of settings.agent_system_message: None (the default) or a text.
SystemMessages == {"", "sys"}

\* The langchain message classes; tool_calls marks an AIMessage that asks
\* for a tool.
Message(type, content, calls) ==
    [type |-> type, content |-> content, tool_calls |-> calls]

HumanMessage(content) == Message("HumanMessage", content, FALSE)

AIMessage(content) == Message("AIMessage", content, FALSE)

SystemMessage(content) == Message("SystemMessage", content, FALSE)

ToolMessage(content) == Message("ToolMessage", content, FALSE)

\* Wire entry to internal message, the history loop of invoke(): the
\* result has one message, or none for a role no branch handles.
FromWire_KeepsSystem(entry) ==
    IF entry.role = "user" THEN <<HumanMessage(entry.content)>>
    ELSE IF entry.role = "assistant" THEN <<AIMessage(entry.content)>>
    ELSE <<SystemMessage(entry.content)>>

FromWire(entry) ==
    IF entry.role = "user" THEN <<HumanMessage(entry.content)>>
    ELSE IF entry.role = "assistant" THEN <<AIMessage(entry.content)>>
    ELSE <<>>

RECURSIVE FromWireAll(_)
FromWireAll(history) ==
    IF history = <<>> THEN <<>>
    ELSE FromWire(Head(history)) \o FromWireAll(Tail(history))

\* invoke(): the message list handed to agent_executor.invoke.
BuildMessages(sys, history, message) ==
    (IF sys # "" THEN <<SystemMessage(sys)>> ELSE <<>>)
        \o FromWireAll(history) \o <<HumanMessage(message)>>

\* chat(): internal message to wire entry, by the class name of the message.
ToWire_AllUser(msg) ==
    IF msg.type \in {"HumanMessage", "AIMessage"}
      THEN <<WireEntry("user", msg.content)>>
      ELSE <<>>

ToWire(msg) ==
    IF msg.type = "HumanMessage" THEN <<WireEntry("user", msg.content)>>
    ELSE IF msg.type = "AIMessage" THEN <<WireEntry("assistant", msg.content)>>
    ELSE <<>>

RECURSIVE ToWireAll(_)
ToWireAll(msgs) ==
    IF msgs = <<>> THEN <<>>
    ELSE ToWire(Head(msgs)) \o ToWireAll(Tail(msgs))

\* chat(): the loop over the result: `assistant_message = content` at every
\* AIMessage, from the first message on.
RECURSIVE AssistantMessageFrom_KeepsFirst(_, _)
AssistantMessageFrom_KeepsFirst(msgs, assistant_message) ==
    IF msgs = <<>> THEN assistant_message
    ELSE AssistantMessageFrom_KeepsFirst(
             Tail(msgs),
             IF Head(msgs).type = "AIMessage" /\ assistant_message = ""
               THEN Head(msgs).content
               ELSE assistant_message)

RECURSIVE AssistantMessageFrom(_, _)
AssistantMessageFrom(msgs, assistant_message) ==
    IF msgs = <<>> THEN assistant_message
    ELSE AssistantMessageFrom(
             Tail(msgs),
             IF Head(msgs).type = "AIMessage"
               THEN Head(msgs).content
               ELSE assistant_message)

\* chat(): the `message` of the response: assistant_message, "" at first.
AssistantMessage(msgs) == AssistantMessageFrom(msgs, "")

NoRequest == [message |-> "", conversation_history |-> <<>>]

NoToolCall == [name |-> "none", backend |-> "none", outcome |-> "none"]

NoChatResponse == [message |-> "", conversation_history |-> <<>>]

ChatIdle ==
    /\ request = NoRequest
    /\ messages = <<>>
    /\ result = <<>>
    /\ tool_call = NoToolCall
    /\ response = NoChatResponse
    /\ tools_info = <<>>

\* The tools whose body is a try/except that returns an error text:
\* duckduckgo_search, the five CRM tools and query_music_database.
GuardedToolNames ==
    {"DuckDuckGoSearch", SqlToolName} \cup {CrmToolNames[i] : i \in 1 .. Len(CrmToolNames)}

\* What a tool invocation gives for an outcome of its backend:  a guarded
\* tool returns a text either way; WikipediaQueryRun, ArxivQueryRun and
\* the retriever tool are used as the library builds them, with no handler
\* around the backend call.
ToolInvoke(name, backend) ==
    IF backend = "return" \/ name \in GuardedToolNames THEN "text" ELSE "raised"

\* Tool calls made so far in the run.
ToolCallsMade == Cardinality({i \in 1 .. Len(result) : result[i].tool_calls})

\* POST /chat arrives: FastAPI validates the body into a ChatRequest and
\* resolves the dependency get_agent_service().
RequestChat(t) ==
    /\ app = "serving"
    /\ pc[t] = "idle"
    /\ \E h \in Histories :
         request' = [message |-> NewMessage, conversation_history |-> h]
    /\ messages' = <<>>
    /\ result' = <<>>
    /\ tool_call' = NoToolCall
    /\ response' = NoChatResponse
    /\ resp' = [resp EXCEPT ![t] = NoResponse]
    /\ Call(t, "da_check", "ch_handler")
    /\ UNCHANGED <<app, settingsVars, tools_info, storeVars, helperVars,
                   agentVars,
                   faissVars, streamVars>>

\* chat() up to agent.invoke(), and invoke():
\* `if self.agent_executor is None: self.initialize()`.
ChatHandler(t) ==
    /\ pc[t] = "ch_handler"
    /\ IF agent_executor = 0
         THEN Call(t, "ai_check", "inv_build")
         ELSE Goto(t, "inv_build")
    /\ UNCHANGED <<app, envVars, agentVars, faissVars, resp, streamVars>>

\* invoke(): builds the message list and calls self.agent_executor.invoke;
\* on an executor that is None the call raises AttributeError.  The
\* executor's state starts as the messages it is given.
InvokeBuild(t) ==
    /\ pc[t] = "inv_build"
    /\ messages' = BuildMessages(system_message, request.conversation_history,
                                 request.message)
    /\ result' = messages'
    /\ pc' = [pc EXCEPT ![t] = IF agent_executor = 0 THEN "ch_except" ELSE "ex_model"]
    /\ rv' = [rv EXCEPT ![t] = "-"]
    /\ UNCHANGED <<app, settingsVars, request, tool_call, response, tools_info,
                   storeVars, helperVars,
                   agentVars, faissVars, stack, resp, streamVars>>

\* The executor calls the model: the call raises, or the model answers, or
\* it asks for one of the registered tools (an AIMessage with tool_calls,
\* whose content is empty).
ExecutorModel(t) ==
    /\ pc[t] = "ex_model"
    /\ \/ /\ Goto(t, "ch_except")
          /\ tool_call' = NoToolCall
          /\ UNCHANGED result
       \/ /\ result' = Append(result, AIMessage("ans"))
          /\ tool_call' = NoToolCall
          /\ Goto(t, "ch_wire")
       \/ /\ ToolCallsMade < MaxToolCalls
          /\ \E i \in 1 .. Len(tools) :
               tool_call' = [NoToolCall EXCEPT !.name = tools[i]]
          /\ result' = Append(result, Message("AIMessage", "", TRUE))
          /\ Goto(t, "ex_tool")
    /\ UNCHANGED <<app, settingsVars, request, messages, response, tools_info,
                   storeVars, helperVars,
                   agentVars, faissVars, resp, streamVars>>

\* The executor runs the tool.  A result text becomes a ToolMessage.  An
\* exception out of the tool is turned into an error ToolMessage or ends
\* the run, as the executor's tool node is configured.
ExecutorTool(t) ==
    /\ pc[t] = "ex_tool"
    /\ \E backend \in {"return", "exception"}, captured \in BOOLEAN :
         /\ tool_call' = [tool_call EXCEPT
                            !.backend = backend,
                            !.outcome = ToolInvoke(tool_call.name, backend)]
         /\ IF ToolInvoke(tool_call.name, backend) = "text" \/ captured
              THEN /\ result' = Append(result, ToolMessage("out"))
                   /\ Goto(t, "ex_model")
              ELSE /\ UNCHANGED result
                   /\ Goto(t, "ch_except")
    /\ UNCHANGED <<app, settingsVars, request, messages, response, tools_info,
                   storeVars, helperVars,
                   agentVars, faissVars, resp, streamVars>>

\* chat(): the loop over result["messages"] and the ChatResponse.
ChatToWire(t) ==
    /\ pc[t] = "ch_wire"
    /\ response' = [message |-> AssistantMessage(result),
                    conversation_history |-> ToWireAll(result)]
    /\ Respond(t, [NoResponse EXCEPT !.http = 200, !.via = "endpoint"])
    /\ UNCHANGED <<app, settingsVars, request, messages, result, tool_call,
                   tools_info, storeVars, helperVars,
                   agentVars, faissVars, streamVars>>

\* chat(): `except Exception` raises HTTPException(500).
ChatOnException(t) ==
    /\ pc[t] = "ch_except"
    /\ Respond(t, ErrorResponse(500, "HTTPException"))
    /\ UNCHANGED <<app, envVars, agentVars, faissVars, streamVars>>

ChatStep(t) ==
    \/ RequestChat(t)
    \/ ChatHandler(t)
    \/ InvokeBuild(t)
    \/ ExecutorModel(t)
    \/ ExecutorTool(t)
    \/ ChatToWire(t)
    \/ ChatOnException(t)

(***************************************************************************)
(* GET /tools: the tool registry as the agent lists it                     *)
(***************************************************************************)

\* Values of settings.faiss_tool_name (FAISS_TOOL_NAME): the default, and
\* the name of a tool another source registers.
FaissToolNames == {DefaultFaissToolName, "WikipediaSearch"}

\* GET /tools arrives: the dependency get_agent_service() is resolved.
RequestTools(t) ==
    /\ app = "serving"
    /\ pc[t] = "idle"
    /\ tools_info' = <<>>
    /\ resp' = [resp EXCEPT ![t] = NoResponse]
    /\ Call(t, "da_check", "lt_handler")
    /\ UNCHANGED <<app, settingsVars, request, messages, result, tool_call,
                   response, storeVars, helperVars,
                   agentVars, faissVars, streamVars>>

\* list_tools() calls get_tools_info(): `if not self.tools: self.initialize()`.
ListToolsHandler(t) ==
    /\ pc[t] = "lt_handler"
    /\ IF tools = <<>>
         THEN Call(t, "ai_check", "lt_info")
         ELSE Goto(t, "lt_info")
    /\ UNCHANGED <<app, envVars, agentVars, faissVars, resp, streamVars>>

\* get_tools_info(): one entry per tool of self.tools, in order; list_tools()
\* returns them in a ToolsResponse.
ListToolsInfo(t) ==
    /\ pc[t] = "lt_info"
    /\ tools_info' = tools
    /\ Respond(t, [NoResponse EXCEPT !.http = 200, !.via = "endpoint"])
    /\ UNCHANGED <<app, settingsVars, request, messages, result, tool_call,
                   response, storeVars, helperVars,
                   agentVars, faissVars, streamVars>>

ToolsStep(t) ==
    \/ RequestTools(t)
    \/ ListToolsHandler(t)
    \/ ListToolsInfo(t)

(***************************************************************************)
(* utils/helpers.py, and the response of chat() for any result list        *)
(***************************************************************************)

\* Longest message given to sanitize_message(), and largest max_length.
MaxLen == 3

\* Longest result list.
MaxMessages == 3

\* Characters of a message; strings are sequences of them.
Chars == {"a", "b", " "}

\* The characters str.strip() removes.
Whitespace == {" "}

Strings == UNION {[1 .. n -> Chars] : n \in 0 .. MaxLen}

RECURSIVE lstrip(_)
lstrip(s) ==
    IF s # <<>> /\ Head(s) \in Whitespace THEN lstrip(Tail(s)) ELSE s

RECURSIVE rstrip(_)
rstrip(s) ==
    IF s # <<>> /\ s[Len(s)] \in Whitespace
      THEN rstrip(SubSeq(s, 1, Len(s) - 1))
      ELSE s

\* str.strip()
strip(s) == rstrip(lstrip(s))

\* sanitize_message(): strip, then cut to max_length characters.
sanitize_message(message, max_length) ==
    LET stripped == strip(message)
    IN  IF Len(stripped) > max_length
          THEN SubSeq(stripped, 1, max_length)
          ELSE stripped

\* extract_last_ai_message(): the content of the first AIMessage met going
\* backwards, "" if there is none.
RECURSIVE extract_last_ai_message(_)
extract_last_ai_message(msgs) ==
    IF msgs = <<>> THEN ""
    ELSE IF msgs[Len(msgs)].type = "AIMessage" THEN msgs[Len(msgs)].content
    ELSE extract_last_ai_message(SubSeq(msgs, 1, Len(msgs) - 1))

MessageClasses == {"HumanMessage", "AIMessage", "SystemMessage", "ToolMessage"}

ResultContents == {"c1", "c2"}

\* The lists agent_executor.invoke() may return as result["messages"].
ResultLists ==
    UNION {[1 .. n -> {Message(type, content, FALSE) :
                         type \in MessageClasses, content \in ResultContents}] :
             n \in 0 .. MaxMessages}

\* The arguments of a sanitize_message() call, before it has run.
SanitizeArgs(message, max_length) ==
    [message |-> message, max_length |-> max_length, result |-> <<>>,
     done |-> FALSE]

\* A result list, before chat() and extract_last_ai_message() have run.
ExtractArgs(msgs) ==
    [messages |-> msgs, message |-> "", conversation_history |-> <<>>,
     last_ai |-> "", done |-> FALSE]

HelpersIdle ==
    /\ sanitized = SanitizeArgs(<<>>, 0)
    /\ extracted = ExtractArgs(<<>>)

\* sanitize_message(message, max_length) runs.
SanitizeMessage ==
    /\ ~sanitized.done
    /\ sanitized' = [sanitized EXCEPT
                       !.result = sanitize_message(sanitized.message,
                                                   sanitized.max_length),
                       !.done = TRUE]
    /\ UNCHANGED <<extracted, storeVars, serviceVars>>

\* chat() builds its response from the result list, and
\* extract_last_ai_message() runs on the same list.
ExtractResponse ==
    /\ ~extracted.done
    /\ extracted' = [extracted EXCEPT
                       !.message = AssistantMessage(extracted.messages),
                       !.conversation_history = ToWireAll(extracted.messages),
                       !.last_ai = extract_last_ai_message(extracted.messages),
                       !.done = TRUE]
    /\ UNCHANGED <<sanitized, storeVars, serviceVars>>

(***************************************************************************)
(* CustomerManager over the customers table                                *)
(***************************************************************************)

\* Most rows the table holds, and the largest customer_id handed out.
MaxCustomers == 2

MaxCustomerId == 3

\* The largest credit a row holds.
MaxCredit == 1

Names == {"n1", "n2"}

Emails == {"e1", "e2"}

CustomerIds == 1 .. MaxCustomerId

\* A row of the customers table (the columns the operations here tell
\* apart).
Customer(id, name, email, status, credit) ==
    [customer_id |-> id, name |-> name, email |-> email,
     active_status |-> status, credit |-> credit]

\* None, where a Customer is expected.
NoCustomer == Customer(0, "", "", "", 0)

\* What a CustomerManager call returned: a row or None (value), True or
\* False (ok), a number (count), a list of rows (rows), or the exception
\* that left it (raised).  keys are the keyword names of an update.
Returned(op, email, ok, value) ==
    [op |-> op, email |-> email, ok |-> ok, value |-> value,
     raised |-> FALSE, keys |-> {}, count |-> 0, rows |-> {}]

Raised(op, email) ==
    [Returned(op, email, FALSE, NoCustomer) EXCEPT !.raised = TRUE]

\* The keyword arguments of update_customer(customer_id, **kwargs): the
\* names given (keys) and their values.  customer_id is the positional
\* parameter of the method and cannot be among them.
KwargKeys == {"name", "email", "active_status"}

\* Values given for active_status.
StatusArgs == {"Active", "inactive"}

Kwargs ==
    {[keys |-> {k \in KwargKeys : \/ k = "name" /\ n # ""
                                  \/ k = "email" /\ e # ""
                                  \/ k = "active_status" /\ s # ""},
      name |-> n, email |-> e, active_status |-> s] :
        n \in Names \cup {""}, e \in Emails \cup {""}, s \in StatusArgs \cup {""}}

NoKwargs == [keys |-> {}, name |-> "", email |-> "", active_status |-> ""]

\* Amounts of update_credit().
Amounts == {-1, 1}

\* The CustomerManager operation in progress and its arguments; `by` is the
\* caller: a client of the manager or get_business_client_count_tool.
Op(op, by, id, name, email, status, kwargs, amount) ==
    [op |-> op, by |-> by, id |-> id, name |-> name, email |-> email,
     status |-> status, kwargs |-> kwargs, amount |-> amount]

NoCall == Op("none", "", 0, "", "", "", NoKwargs, 0)

\* get_business_client_count_tool: where it is, and its local variables.
CountTool(phase, count, active_count, inactive_count) ==
    [phase |-> phase, count |-> count, active_count |-> active_count,
     inactive_count |-> inactive_count]

CountToolIdle == CountTool("idle", 0, 0, 0)

StoreEmpty ==
    /\ customers = {}
    /\ returned = Returned("none", "", FALSE, NoCustomer)
    /\ sessions = 0
    /\ call = NoCall
    /\ count_tool = CountToolIdle

\* The rowid SQLite gives the next inserted row: one more than the largest
\* in the table.
RECURSIVE MaxId(_)
MaxId(rows) ==
    IF rows = {} THEN 0
    ELSE LET r == CHOOSE x \in rows : TRUE
             rest == MaxId(rows \ {r})
         IN  IF r.customer_id > rest THEN r.customer_id ELSE rest

\* The UNIQUE constraint of Customer.email: a commit that would leave a row
\* other than `id` with this email raises IntegrityError.
EmailTaken_Never(email, id) == FALSE

EmailTaken(email, id) ==
    \E c \in customers : c.email = email /\ c.customer_id # id

\* str.lower() on the status strings used here.
Lower(value) == IF value = "Active" THEN "active" ELSE value

\* ActiveStatus.ACTIVE if value.lower() == "active" else ActiveStatus.INACTIVE
ActiveStatusOf(value) == IF Lower(value) = "active" THEN "active" ELSE "inactive"

\* A database call of the operation goes through, or raises an error other
\* than IntegrityError (the database is locked, the disk fails).
DbOutcomes == {"ok", "error"}

\* session = self._get_session(): the first statement of every operation.
ManagerCall(c) ==
    /\ call.op = "none"
    /\ call' = c
    /\ sessions' = sessions + 1
    /\ returned' = Returned("none", "", FALSE, NoCustomer)
    /\ UNCHANGED customers

\* finally: session.close(), by whichever way the operation is left: the
\* number of open sessions afterwards.
session_close_NotWhenRaised(r) == IF r.raised THEN sessions ELSE sessions - 1

session_close(r) == sessions - 1

\* The operation in progress returns or raises (r), through its finally
\* clause.
Leave(r) ==
    /\ returned' = r
    /\ sessions' = session_close(r)
    /\ call' = NoCall

\* create_customer(): add and commit; on IntegrityError rollback and
\* return None.
create_customer ==
    /\ call.op = "create_customer"
    /\ \E db \in DbOutcomes :
         IF db = "error"
           THEN /\ UNCHANGED customers
                /\ Leave(Raised("create_customer", call.email))
           ELSE IF EmailTaken(call.email, 0)
             THEN /\ UNCHANGED customers
                  /\ Leave(Returned("create_customer", call.email, FALSE,
                                    NoCustomer))
             ELSE LET c == Customer(MaxId(customers) + 1, call.name, call.email,
                                    ActiveStatusOf(call.status), 0)
                  IN  /\ customers' = customers \cup {c}
                      /\ Leave(Returned("create_customer", call.email, TRUE, c))
    /\ UNCHANGED <<count_tool, helperVars, serviceVars>>

\* update_customer(): the loop over kwargs: setattr for each name given.
setattr_AllFields(customer, kw) ==
    [customer EXCEPT !.name = kw.name,
                     !.email = kw.email,
                     !.active_status = ActiveStatusOf(kw.active_status)]

setattr(customer, kw) ==
    [customer EXCEPT
       !.name = IF "name" \in kw.keys THEN kw.name ELSE @,
       !.email = IF "email" \in kw.keys THEN kw.email ELSE @,
       !.active_status = IF "active_status" \in kw.keys
                           THEN ActiveStatusOf(kw.active_status) ELSE @]

\* update_customer(): None if there is no such row; set the given fields
\* and commit; on IntegrityError rollback and return None.
update_customer ==
    /\ call.op = "update_customer"
    /\ LET keys == call.kwargs.keys
           none == [Returned("update_customer", "", FALSE, NoCustomer)
                      EXCEPT !.keys = keys]
       IN  \E db \in DbOutcomes :
             IF db = "error"
               THEN /\ UNCHANGED customers
                    /\ Leave([Raised("update_customer", "") EXCEPT !.keys = keys])
               ELSE IF ~\E c \in customers : c.customer_id = call.id
                 THEN /\ UNCHANGED customers
                      /\ Leave(none)
                 ELSE LET old == CHOOSE c \in customers : c.customer_id = call.id
                          new == setattr(old, call.kwargs)
                      IN  IF EmailTaken(new.email, call.id)
                            THEN /\ UNCHANGED customers
                                 /\ Leave(none)
                            ELSE /\ customers' = (customers \ {old}) \cup {new}
                                 /\ Leave([none EXCEPT !.ok = TRUE, !.value = new])
    /\ UNCHANGED <<count_tool, helperVars, serviceVars>>

\* delete_customer(): False if there is no such row, else delete and
\* commit; on any exception rollback and return False.
delete_customer ==
    /\ call.op = "delete_customer"
    /\ \E db \in DbOutcomes :
         IF db = "error" \/ ~\E c \in customers : c.customer_id = call.id
           THEN /\ UNCHANGED customers
                /\ Leave(Returned("delete_customer", "", FALSE, NoCustomer))
           ELSE /\ customers' = {c \in customers : c.customer_id # call.id}
                /\ Leave(Returned("delete_customer", "", TRUE, NoCustomer))
    /\ UNCHANGED <<count_tool, helperVars, serviceVars>>

\* update_credit(): None if there is no such row, else add the amount and
\* commit; no except clause: an exception leaves through finally.
update_credit ==
    /\ call.op = "update_credit"
    /\ \E db \in DbOutcomes :
         IF db = "error"
           THEN /\ UNCHANGED customers
                /\ Leave(Raised("update_credit", ""))
           ELSE IF ~\E c \in customers : c.customer_id = call.id
             THEN /\ UNCHANGED customers
                  /\ Leave(Returned("update_credit", "", FALSE, NoCustomer))
             ELSE LET old == CHOOSE c \in customers : c.customer_id = call.id
                      new == [old EXCEPT !.credit = @ + call.amount]
                  IN  /\ customers' = (customers \ {old}) \cup {new}
                      /\ Leave(Returned("update_credit", "", TRUE, new))
    /\ UNCHANGED <<count_tool, helperVars, serviceVars>>

\* get_customer_count(): the number of rows.  Called by the count tool,
\* the result is its `count`; an exception takes the tool to its except
\* clause.
get_customer_count ==
    /\ call.op = "get_customer_count"
    /\ \E db \in DbOutcomes :
         LET n == Cardinality(customers)
             r == IF db = "error" THEN Raised("get_customer_count", "")
                  ELSE [Returned("get_customer_count", "", TRUE, NoCustomer)
                          EXCEPT !.count = n]
         IN  /\ Leave(r)
             /\ count_tool' =
                  IF call.by # "tool" THEN count_tool
                  ELSE IF r.raised THEN CountTool("error", 0, 0, 0)
                  ELSE CountTool("counted", n, 0, 0)
    /\ UNCHANGED <<customers, helperVars, serviceVars>>

\* get_active_customers(): the rows whose active_status is ACTIVE.  Called
\* by the count tool, their number is its `active_count`, and
\* inactive_count = count - active_count.
get_active_customers ==
    /\ call.op = "get_active_customers"
    /\ \E db \in DbOutcomes :
         LET rows == {c \in customers : c.active_status = "active"}
             r == IF db = "error" THEN Raised("get_active_customers", "")
                  ELSE [Returned("get_active_customers", "", TRUE, NoCustomer)
                          EXCEPT !.rows = rows]
             active_count == Cardinality(rows)
         IN  /\ Leave(r)
             /\ count_tool' =
                  IF call.by # "tool" THEN count_tool
                  ELSE IF r.raised THEN CountTool("error", 0, 0, 0)
                  ELSE CountTool("done", count_tool.count, active_count,
                                 count_tool.count - active_count)
    /\ UNCHANGED <<customers, helperVars, serviceVars>>

\* A client calls create_customer(name, ..., email, ..., active_status).
CreateCustomer ==
    /\ Cardinality(customers) < MaxCustomers
    /\ MaxId(customers) < MaxCustomerId
    /\ \E name \in Names, email \in Emails, status \in StatusArgs :
         ManagerCall(Op("create_customer", "client", 0, name, email, status,
                          NoKwargs, 0))
    /\ UNCHANGED <<count_tool, helperVars, serviceVars>>

\* A client calls update_customer(customer_id, **kwargs).
UpdateCustomer ==
    /\ \E id \in CustomerIds, kw \in Kwargs :
         ManagerCall(Op("update_customer", "client", id, "", "", "", kw, 0))
    /\ UNCHANGED <<count_tool, helperVars, serviceVars>>

\* A client calls delete_customer(customer_id).
DeleteCustomer ==
    /\ \E id \in CustomerIds :
         ManagerCall(Op("delete_customer", "client", id, "", "", "",
                          NoKwargs, 0))
    /\ UNCHANGED <<count_tool, helperVars, serviceVars>>

\* A client calls update_credit(customer_id, amount); the credit stays
\* within 0 .. MaxCredit here.
UpdateCredit ==
    /\ \E id \in CustomerIds, amount \in Amounts :
         /\ \A c \in customers :
              c.customer_id = id => c.credit + amount \in 0 .. MaxCredit
         /\ ManagerCall(Op("update_credit", "client", id, "", "", "",
                             NoKwargs, amount))
    /\ UNCHANGED <<count_tool, helperVars, serviceVars>>

\* A client calls get_customer_count() or get_active_customers().
GetCustomerCount ==
    /\ ManagerCall(Op("get_customer_count", "client", 0, "", "", "",
                        NoKwargs, 0))
    /\ UNCHANGED <<count_tool, helperVars, serviceVars>>

GetActiveCustomers ==
    /\ ManagerCall(Op("get_active_customers", "client", 0, "", "", "",
                        NoKwargs, 0))
    /\ UNCHANGED <<count_tool, helperVars, serviceVars>>

\* activate_customer() and deactivate_customer(): update_customer() with
\* active_status alone.
activate_customer(id) ==
    ManagerCall(Op("update_customer", "client", id, "", "", "",
                     [NoKwargs EXCEPT !.keys = {"active_status"},
                                      !.active_status = "Active"], 0))

deactivate_customer(id) ==
    ManagerCall(Op("update_customer", "client", id, "", "", "",
                     [NoKwargs EXCEPT !.keys = {"active_status"},
                                      !.active_status = "inactive"], 0))

ActivateCustomer ==
    /\ \E id \in CustomerIds : activate_customer(id)
    /\ UNCHANGED <<count_tool, helperVars, serviceVars>>

DeactivateCustomer ==
    /\ \E id \in CustomerIds : deactivate_customer(id)
    /\ UNCHANGED <<count_tool, helperVars, serviceVars>>

\* get_business_client_count_tool: count = manager.get_customer_count().
CountToolCount ==
    /\ count_tool.phase \in {"idle", "done", "error"}
    /\ ManagerCall(Op("get_customer_count", "tool", 0, "", "", "",
                        NoKwargs, 0))
    /\ count_tool' = CountTool("count", 0, 0, 0)
    /\ UNCHANGED <<helperVars, serviceVars>>

\* get_business_client_count_tool:
\* active_count = len(manager.get_active_customers()).
CountToolActive ==
    /\ count_tool.phase = "counted"
    /\ ManagerCall(Op("get_active_customers", "tool", 0, "", "", "",
                        NoKwargs, 0))
    /\ count_tool' = [count_tool EXCEPT !.phase = "active"]
    /\ UNCHANGED <<helperVars, serviceVars>>

(***************************************************************************)
(* Specifications                                                          *)
(***************************************************************************)
StreamIdle ==
    /\ demand = FALSE
    /\ consumer = "none"
    /\ inner = "none"
    /\ astream = "none"
    /\ events = <<>>
    /\ chunks = <<>>

\* The state after the modules are imported, settings apart.
InitState ==
    /\ app = "created"
    /\ cacheOnDisk \in BOOLEAN
    /\ llm = FALSE
    /\ tools = <<>>
    /\ agent_executor = 0
    /\ embeddings = FALSE
    /\ vectorstore = FALSE
    /\ retriever = FALSE
    /\ retriever_tool = FALSE
    /\ pc = [t \in Procs |-> "idle"]
    /\ stack = [t \in Procs |-> <<>>]
    /\ rv = [t \in Procs |-> "-"]
    /\ resp = [t \in Procs |-> NoResponse]
    /\ StreamIdle
    /\ ChatIdle
    /\ StoreEmpty
    /\ HelpersIdle

Init ==
    /\ InitState
    /\ faiss_cache_enabled \in BOOLEAN
    /\ faiss_tool_name = DefaultFaissToolName
    /\ system_message = ""

\* The singleton services under the dependency calls of concurrent requests.
Next ==
    \/ Lifespan
    \/ \E t \in Procs : FaissStep(t) \/ AgentStep(t)
    \/ \E t \in Threads : DepAgentStep(t) \/ DepFaissStep(t)
    \/ \E t \in Threads : WorkerGetAgentService(t) \/ WorkerGetFaissService(t)

Spec == Init /\ [][Next]_vars

\* One /health request at a time, from its dependencies to its response.
NextHealth ==
    \/ Lifespan
    \/ \E t \in {Main, StreamProc} : FaissStep(t) \/ AgentStep(t)
    \/ DepAgentStep(StreamProc)
    \/ DepFaissStep(StreamProc)
    \/ HealthStep(StreamProc)

SpecHealth == Init /\ [][NextHealth]_vars

\* One /chat-stream request at a time, from its dependency to the end of
\* its event stream.
NextStream ==
    \/ Lifespan
    \/ \E t \in {Main, StreamProc} : FaissStep(t) \/ AgentStep(t)
    \/ DepAgentStep(StreamProc)
    \/ StreamStep(StreamProc)

SpecStream == Init /\ [][NextStream]_vars

InitChat ==
    /\ InitState
    /\ faiss_cache_enabled \in BOOLEAN
    /\ faiss_tool_name = DefaultFaissToolName
    /\ system_message \in SystemMessages

\* One /chat request at a time, from its dependency to its response.
NextChat ==
    \/ Lifespan
    \/ \E t \in {Main, StreamProc} : FaissStep(t) \/ AgentStep(t)
    \/ DepAgentStep(StreamProc)
    \/ ChatStep(StreamProc)

SpecChat == InitChat /\ [][NextChat]_vars

InitRegistry ==
    /\ InitState
    /\ faiss_cache_enabled \in BOOLEAN
    /\ faiss_tool_name \in FaissToolNames
    /\ system_message = ""

\* Start-up and one /tools request at a time, for each configured name of
\* the FAISS tool.
NextRegistry ==
    \/ Lifespan
    \/ \E t \in {Main, StreamProc} : FaissStep(t) \/ AgentStep(t)
    \/ DepAgentStep(StreamProc)
    \/ ToolsStep(StreamProc)

SpecRegistry == InitRegistry /\ [][NextRegistry]_vars

\* The store alone: the services are not started.
InitStore ==
    /\ InitState
    /\ cacheOnDisk = FALSE
    /\ faiss_cache_enabled = TRUE
    /\ faiss_tool_name = DefaultFaissToolName
    /\ system_message = ""

\* Any sequence of calls of the customer store.
NextStore ==
    \/ CreateCustomer
    \/ UpdateCustomer
    \/ DeleteCustomer
    \/ UpdateCredit
    \/ GetCustomerCount
    \/ GetActiveCustomers
    \/ create_customer
    \/ update_customer
    \/ delete_customer
    \/ update_credit
    \/ get_customer_count
    \/ get_active_customers

SpecStore == InitStore /\ [][NextStore]_vars

\* The services not started and the table empty.
InitHelpers ==
    /\ app = "created"
    /\ cacheOnDisk = FALSE
    /\ llm = FALSE
    /\ tools = <<>>
    /\ agent_executor = 0
    /\ embeddings = FALSE
    /\ vectorstore = FALSE
    /\ retriever = FALSE
    /\ retriever_tool = FALSE
    /\ pc = [t \in Procs |-> "idle"]
    /\ stack = [t \in Procs |-> <<>>]
    /\ rv = [t \in Procs |-> "-"]
    /\ resp = [t \in Procs |-> NoResponse]
    /\ StreamIdle
    /\ ChatIdle
    /\ StoreEmpty
    /\ faiss_cache_enabled = TRUE
    /\ faiss_tool_name = DefaultFaissToolName
    /\ system_message = ""

\* sanitize_message() on every message and max_length within the bounds.
InitSanitize ==
    /\ InitHelpers
    /\ \E message \in Strings, max_length \in 0 .. MaxLen :
         sanitized = SanitizeArgs(message, max_length)
    /\ extracted = ExtractArgs(<<>>)

SpecSanitize == InitSanitize /\ [][SanitizeMessage]_vars

\* chat() and extract_last_ai_message() on every result list within the
\* bounds.
InitExtract ==
    /\ InitHelpers
    /\ sanitized = SanitizeArgs(<<>>, 0)
    /\ \E msgs \in ResultLists : extracted = ExtractArgs(msgs)

SpecExtract == InitExtract /\ [][ExtractResponse]_vars

\* get_business_client_count_tool while other requests create, delete,
\* activate and deactivate customers.
NextCrm ==
    \/ CountToolCount
    \/ CountToolActive
    \/ get_customer_count
    \/ get_active_customers
    \/ CreateCustomer
    \/ DeleteCustomer
    \/ ActivateCustomer
    \/ DeactivateCustomer
    \/ create_customer
    \/ update_customer
    \/ delete_customer

SpecCrm == InitStore /\ [][NextCrm]_vars

(***************************************************************************)
(* Properties of GET /health (checked under SpecHealth)                    *)
(***************************************************************************)
HealthStatuses == {"healthy", "degraded", "unhealthy"}

\* The storage check of the request of task t failed: get_customer_count()
\* raised in the handler, or CustomerManager(db_uri) could not reach the
\* database.
StorageCheckFailed(t) ==
    \/ resp[t].database = "unhealthy"
    \/ resp[t].error = "OperationalError"

\* C1: whenever the storage check of a GET /health request fails
\* (get_customer_count() raises, or the repository cannot be reached at
\* all), the response carries overall status `unhealthy`.
C1_StorageFailureIsUnhealthy ==
    \A t \in Threads :
        (resp[t].via = "endpoint" /\ StorageCheckFailed(t))
            => resp[t].status = "unhealthy"

\* C2: GET /health with FAISS not ready, the agent ready and the database
\* check succeeding answers overall status `degraded`, with faiss
\* `degraded` and the agent and database components `healthy`.
C2_FaissDownIsDegraded ==
    \A t \in Threads :
        (/\ resp[t].via = "endpoint"
         /\ resp[t].http = 200
         /\ resp[t].agent = "healthy"
         /\ resp[t].database = "healthy"
         /\ ~FaissIsReady)
            => (resp[t].status = "degraded" /\ resp[t].faiss = "degraded")

\* C3: every response to GET /health is HTTP 200 and carries a health
\* status in its body.
C3_HealthAlways200 ==
    \A t \in Threads :
        (resp[t].via = "endpoint" /\ resp[t].http # 0)
            => (resp[t].http = 200 /\ resp[t].status \in HealthStatuses)

C5_FaissAloneNeverUnhealthy ==
    \A t \in Threads :
        (/\ resp[t].http = 200
         /\ resp[t].agent = "healthy"
         /\ resp[t].database = "healthy")
            => resp[t].status # "unhealthy"

\* GET /health answered with FAISS down and the two required components up.
C5_Witness ==
    \E t \in Threads :
        /\ resp[t].via = "endpoint"
        /\ resp[t].http = 200
        /\ resp[t].agent = "healthy"
        /\ resp[t].database = "healthy"
        /\ resp[t].faiss = "degraded"

(***************************************************************************)
(* Properties of service initialisation                                    *)
(***************************************************************************)

\* Statements of AgentService.initialize() past its guard.
AgentInitBody == {"ai_llm", "ai_tools", "ai_append", "ai_exec"}

\* Statements of FAISSService.initialize() past its guard.
FaissInitBody == {"fi_vs", "fi_save", "fi_tool"}

\* Statements of FAISSService.initialize() and load_from_disk().
FaissInitLabels == {"fi_check"} \cup FaissInitBody

FaissLoadLabels == {"ld_check", "ld_vs", "ld_tool"}

\* Task t is inside the body of AgentService.initialize(), the call of
\* get_retriever_tool() it makes included.
InAgentInitialize(t) ==
    \/ pc[t] \in AgentInitBody
    \/ \E i \in 1 .. Len(stack[t]) : stack[t][i] = "ai_tools"

InFaissInitialize(t) == pc[t] \in FaissInitBody

\* C7: when several requests arrive while a service is not ready, at most
\* one caller at a time executes the body of initialize() past the
\* already-initialized check, and the agent executor is built once.
C7_SingleFlightInitialization ==
    /\ [](Cardinality({t \in Procs : InAgentInitialize(t)}) <= 1)
    /\ [](Cardinality({t \in Procs : InFaissInitialize(t)}) <= 1)
    /\ [][agent_executor # 0 => agent_executor' = agent_executor]_vars

\* Task t returns True from FAISSService.initialize() or load_from_disk()
\* in this step.
FaissInitReturnsTrue(t) ==
    /\ pc[t] \in FaissInitLabels \cup FaissLoadLabels
    /\ pc'[t] \notin FaissInitLabels \cup FaissLoadLabels
    /\ rv'[t] = "True"

\* Task t returns True from AgentService.initialize() in this step.
AgentInitReturnsTrue(t) ==
    /\ pc[t] \in {"ai_check"} \cup AgentInitBody
    /\ pc'[t] \notin {"ai_check"} \cup AgentInitBody
    /\ rv'[t] = "True"

\* C8: a failed initialization is retryable: an initialization attempt in
\* which no sub-step fails (it returns True) leaves the service ready, also
\* when it follows a failed attempt.
C8_FailedInitIsRetryable ==
    [][\A t \in Procs :
          /\ FaissInitReturnsTrue(t) => FaissIsReady'
          /\ AgentInitReturnsTrue(t) => AgentIsReady']_vars

\* C9: initialize() on a service that is ready returns True and changes
\* nothing: same tools, same executor, same FAISS fields.
C9_InitializeIdempotent ==
    [][\A t \in Procs :
          /\ (pc[t] = "ai_check" /\ AgentIsReady /\ pc'[t] # "ai_check")
                => /\ rv'[t] = "True"
                   /\ pc'[t] = Head(stack[t])
                   /\ UNCHANGED <<agentVars, faissVars>>
          /\ (pc[t] = "fi_check" /\ FaissIsReady /\ pc'[t] # "fi_check")
                => /\ rv'[t] = "True"
                   /\ pc'[t] = Head(stack[t])
                   /\ UNCHANGED <<agentVars, faissVars>>]_vars

\* get_agent_service() of task t saw the agent not ready and called
\* initialize(), and another task made the agent ready in between: t is at
\* the guard of initialize() on a ready service.
C9_Witness ==
    \E t \in Threads :
        /\ pc[t] = "ai_check"
        /\ Head(stack[t]) = "da_after"
        /\ AgentIsReady
        /\ agent_executor # t + 1

(***************************************************************************)
(* Properties of the /chat-stream event sequence (checked under SpecStream) *)
(***************************************************************************)
TerminalEvents == {"end", "error"}

\* No event follows a terminal one, `start` is first and occurs once, and
\* everything between is an `agent` or `tool` event.
EventsWellFormed ==
    \A i \in 1 .. Len(events) :
        /\ (i = 1) <=> (events[i].event = "start")
        /\ (events[i].event \in TerminalEvents) => (i = Len(events))
        /\ (i > 1 /\ i < Len(events)) => events[i].event \in {"agent", "tool"}

\* C6: a /chat-stream run consumed to completion emitted exactly one
\* `start` first, then `agent`/`tool` events, then exactly one terminal
\* event: `end` on normal termination, `error` when the agent stream
\* raised; at no moment has an event followed a terminal one.
C6_EventSequenceShape ==
    /\ EventsWellFormed
    /\ consumer = "done"
         => /\ Len(events) >= 2
            /\ events[Len(events)].event \in TerminalEvents
            /\ (events[Len(events)].event = "end") => (inner = "finished")
            /\ (inner = "raised") => (events[Len(events)].event = "error")

\* A completed run with two chunks, and its events in order.
C6_Witness ==
    /\ consumer = "done"
    /\ Len(events) = 4
    /\ events[2].event = "agent"
    /\ events[3].event = "tool"
    /\ events[4].event = "end"

\* The event sequence of the request has been closed early: the consumer
\* stopped and event_generator() is gone.
ClosedEarly == consumer = "stopped" /\ pc[StreamProc] = "idle"

\* C10: when the consumer stops pulling, the agent stream (stream() and the
\* executor's astream) is closed as part of closing the event sequence, and
\* no event of that request is produced after the consumer has stopped.
C10_EarlyCloseReleasesStream ==
    /\ [](ClosedEarly => (inner # "suspended" /\ astream # "suspended"))
    /\ [][(consumer = "stopped" /\ consumer' = "stopped") => events' = events]_vars

(***************************************************************************)
(* Properties of POST /chat (checked under SpecChat)                       *)
(***************************************************************************)

\* The message class a history entry of a role stands for.
ClassOfRole(role) ==
    CASE role = "user" -> "HumanMessage"
      [] role = "assistant" -> "AIMessage"
      [] role = "system" -> "SystemMessage"

\* Number of leading messages the configured system message takes.
SystemOffset == IF system_message # "" THEN 1 ELSE 0

\* The /chat request of task t was answered 200 with a ChatResponse.
ChatAnswered(t) == resp[t].http = 200 /\ request # NoRequest

\* C11: the message list handed to the agent executor is the configured
\* system message (if any), then one message for every entry of the
\* request's conversation_history in the same order (no entry of a role
\* the request model accepts is dropped), then the new user message.
C11_MessageListComplete ==
    messages # <<>> =>
        LET h == request.conversation_history
        IN  /\ Len(messages) = SystemOffset + Len(h) + 1
            /\ SystemOffset = 1 => messages[1] = SystemMessage(system_message)
            /\ \A i \in 1 .. Len(h) :
                 /\ messages[SystemOffset + i].type = ClassOfRole(h[i].role)
                 /\ messages[SystemOffset + i].content = h[i].content
            /\ messages[Len(messages)] = HumanMessage(request.message)

\* The AIMessages the run added to the messages it was given.
AssistantTurnsProduced ==
    Cardinality({i \in Len(messages) + 1 .. Len(result) : result[i].type = "AIMessage"})

\* C12: the conversation_history of a /chat response has as many entries
\* as the input history, plus the new user turn, plus the assistant turns
\* the run produced; never fewer than len(input history) + 2.
C12_ResponseHistoryCount ==
    \A t \in Threads :
        ChatAnswered(t) =>
            LET n == Len(request.conversation_history)
            IN  /\ Len(response.conversation_history) = n + 1 + AssistantTurnsProduced
                /\ Len(response.conversation_history) >= n + 2

\* The messages of a run that are user turns or assistant answers: no
\* system message, no AIMessage that carries a tool call, no ToolMessage.
IsVisibleTurn(msg) ==
    \/ msg.type = "HumanMessage"
    \/ msg.type = "AIMessage" /\ ~msg.tool_calls

\* C13: the conversation_history of a /chat response holds the user and
\* assistant turns only: system messages, assistant messages that carry a
\* tool call and tool results are omitted.
C13_OnlyVisibleTurns ==
    \A t \in Threads :
        ChatAnswered(t) =>
            /\ \A i \in 1 .. Len(response.conversation_history) :
                 response.conversation_history[i].role \in {"user", "assistant"}
            /\ Len(response.conversation_history) = Len(SelectSeq(result, IsVisibleTurn))

\* A conversation_history of user and assistant entries only.
UserAssistantOnly(h) == \A i \in 1 .. Len(h) : h[i].role \in {"user", "assistant"}

\* C14: for a conversation_history of user and assistant entries, the
\* response's history starts with exactly those entries (same role, same
\* content, same order) followed by the new user message.
C14_HistoryRoundTrip ==
    \A t \in Threads :
        (ChatAnswered(t) /\ UserAssistantOnly(request.conversation_history)) =>
            LET h == request.conversation_history
            IN  /\ Len(response.conversation_history) >= Len(h) + 1
                /\ SubSeq(response.conversation_history, 1, Len(h) + 1)
                     = h \o <<WireEntry("user", request.message)>>

\* A response to a request whose history is a user entry and an assistant
\* entry, with a system message configured.
C14_Witness ==
    \E t \in Threads :
        /\ ChatAnswered(t)
        /\ system_message # ""
        /\ Len(request.conversation_history) = 2
        /\ request.conversation_history[1].role = "user"
        /\ request.conversation_history[2].role = "assistant"

\* C19: in the message list handed to the agent executor a system message
\* is at index 1 (the first position) or nowhere, and the last message is
\* the new user message.
C19_SystemFirstUserLast ==
    messages # <<>> =>
        /\ \A i \in 1 .. Len(messages) :
             messages[i].type = "SystemMessage" => i = 1
        /\ messages[Len(messages)].type = "HumanMessage"

\* A message list built with a system message configured from a history
\* that has a system entry at its end.
C19_Witness ==
    /\ messages # <<>>
    /\ system_message # ""
    /\ Len(request.conversation_history) = 2
    /\ request.conversation_history[2].role = "system"

\* Statements of chat() and of AgentService.invoke() under it.
ChatLabels == {"ch_handler", "inv_build", "ex_model", "ex_tool", "ch_wire", "ch_except"}

\* C18: POST /chat answers 503 exactly when the agent is not ready and its
\* initialization attempt fails, and 500 when the agent is ready and
\* invoke raises; the handler and invoke never run on a service that is
\* not ready, so no 500 is sent for a dispatcher that is not ready.
C18_ChatErrorCodes ==
    /\ [](\A t \in Threads :
            /\ resp[t].http = 503 => ~AgentIsReady
            /\ resp[t].http = 500 => AgentIsReady
            /\ pc[t] \in ChatLabels => AgentIsReady)
    /\ [][\A t \in Threads :
            /\ (pc[t] = "da_after" /\ rv[t] = "False") => resp'[t].http = 503
            /\ (pc[t] = "ch_except" /\ pc'[t] # "ch_except") => resp'[t].http = 500
            /\ resp'[t].http = 503 => (pc[t] = "da_after" /\ rv[t] = "False")]_vars

\* A /chat request answered 503: its dependency found the agent not
\* ready and initialize() returned False.
C18_Witness ==
    \E t \in Threads :
        /\ resp[t].http = 503
        /\ request # NoRequest
        /\ ~AgentIsReady

\* C16: a tool invocation never raises out of the tool: whatever its
\* backend does (return or exception), a registered tool returns a text.
C16_ToolNeverRaises == tool_call.outcome # "raised"

(***************************************************************************)
(* Properties of the tool registry (checked under SpecRegistry)            *)
(***************************************************************************)

\* Task t leaves the tool-loading part of AgentService.initialize() in this
\* step, the LLM having been built.
ToolSourcesLoaded(t) ==
    /\ pc[t] = "ai_llm"
    /\ pc'[t] # "ai_llm"
    /\ llm'

\* C15: the registry tolerates partial population: when a tool source
\* fails to load, initialize() does not fail for it but goes on with the
\* tools of the other sources, and the tools that loaded are the ones
\* get_tools_info() lists.
C15_PartialPopulationTolerated ==
    /\ [][\A t \in Procs : ToolSourcesLoaded(t) => rv'[t] # "False"]_vars
    /\ [](\A t \in Threads :
            (resp[t].http = 200 /\ pc[t] = "idle") => tools_info = tools)

\* C17: after a successful agent initialization no two entries of
\* AgentService.tools have the same name.
C17_ToolNamesUnique ==
    AgentIsReady =>
        \A i, j \in 1 .. Len(tools) : tools[i] = tools[j] => i = j

(***************************************************************************)
(* Properties of the customer store (checked under SpecStore)              *)
(***************************************************************************)

\* C20: no two stored customers share an email, after any sequence of
\* create_customer, update_customer and delete_customer; a create_customer
\* with an email already present returns None and leaves the store as it
\* was.
C20_NoDuplicateEmails ==
    /\ [](\A c1, c2 \in customers : c1.email = c2.email => c1 = c2)
    /\ [][(/\ returned'.op = "create_customer"
           /\ \E c \in customers : c.email = returned'.email)
            => (returned'.value = NoCustomer /\ customers' = customers)]_vars

\* A create_customer with the email of a stored customer has returned None.
C20_Witness ==
    /\ returned.op = "create_customer"
    /\ ~returned.raised
    /\ returned.value = NoCustomer
    /\ \E c \in customers : c.email = returned.email

(***************************************************************************)
(* Further properties of the services, the health check and /chat-stream   *)
(***************************************************************************)

\* The tag event_generator() is to give a chunk with these keys.
TagOfChunk(keys) ==
    CASE "agent" \in keys -> "agent"
      [] "agent" \notin keys /\ "tools" \in keys -> "tool"
      [] OTHER -> "agent"

\* C22: between `start` and the terminal event, /chat-stream has emitted
\* exactly one event per chunk the agent stream yielded, in the same order,
\* carrying that chunk and tagged by its keys: no chunk is dropped,
\* duplicated or reordered.
C22_OneEventPerChunk ==
    consumer = "done"
      => /\ Len(events) = Len(chunks) + 2
         /\ \A i \in 1 .. Len(chunks) :
              events[i + 1] = Event(TagOfChunk(chunks[i]), i)

\* C23: once the agent service is ready it stays ready, and no step of any
\* caller changes agent_executor or the tools list.
C23_ReadyRegistryIsReadOnly ==
    [][AgentIsReady => /\ AgentIsReady'
                       /\ agent_executor' = agent_executor
                       /\ tools' = tools]_vars

\* C26: a True result of FAISSService.initialize() or load_from_disk()
\* leaves the FAISS service ready (the retriever tool exists), whatever
\* state an earlier attempt left behind.
C26_FaissTrueImpliesReady ==
    [][\A t \in Procs : FaissInitReturnsTrue(t) => retriever_tool']_vars

\* C27: a failed AgentService.initialize() leaves no partial state: while
\* the agent is not ready and nobody is inside initialize(), tools is empty
\* and llm is None.
C27_FailedInitLeavesNothing ==
    (~AgentIsReady /\ \A t \in Procs : ~InAgentInitialize(t))
      => (tools = <<>> /\ ~llm)

\* C28: whenever the agent service and the FAISS service are both ready,
\* the FAISS retriever tool is one of the agent's tools.
C28_HealthAndRegistryAgree ==
    (AgentIsReady /\ FaissIsReady)
      => \E i \in 1 .. Len(tools) : tools[i] = faiss_tool_name

(***************************************************************************)
(* Properties of the customer store and the count tool (SpecStore, SpecCrm)*)
(***************************************************************************)

\* C21: every CustomerManager operation opens its own session and closes
\* it before it returns, whether it returns a value, None or False, or
\* raises: exactly one session is open during a call and none between
\* calls.
C21_SessionPerCall ==
    sessions = IF call.op = "none" THEN 0 ELSE 1

\* update_credit() and create_customer() have been left by an exception
\* that no except clause handles, and no session is open.
C21_Witness ==
    /\ call.op = "none"
    /\ returned.raised
    /\ returned.op \in {"update_credit", "create_customer"}
    /\ sessions = 0

\* C29: get_business_client_count reports a consistent snapshot: the
\* inactive count is not negative and the active count is not larger than
\* the total, also when other requests change the table between the
\* tool's two queries.
C29_ConsistentSnapshot ==
    count_tool.phase = "done"
      => /\ count_tool.inactive_count >= 0
         /\ count_tool.active_count <= count_tool.count

\* The step in which update_customer() returns or raises.
UpdateCustomerLeaves == call.op = "update_customer" /\ call'.op = "none"

\* C30: update_customer changes only the fields named in the call: the
\* row keeps its customer_id and every field not named, and no other row
\* is changed, added or removed.
C30_UpdateChangesOnlyGivenFields ==
    [][UpdateCustomerLeaves =>
         /\ Cardinality(customers') = Cardinality(customers)
         /\ \A c \in customers :
              IF c.customer_id # call.id
                THEN c \in customers'
                ELSE \E d \in customers' :
                       /\ d.customer_id = c.customer_id
                       /\ d.credit = c.credit
                       /\ "name" \notin call.kwargs.keys => d.name = c.name
                       /\ "email" \notin call.kwargs.keys => d.email = c.email
                       /\ "active_status" \notin call.kwargs.keys
                            => d.active_status = c.active_status]_vars

\* An update_customer(customer_id, name=...) has changed the name of one
\* of two stored customers.
C30_Witness ==
    /\ returned.op = "update_customer"
    /\ returned.ok
    /\ returned.keys = {"name"}
    /\ returned.value.name = "n2"
    /\ Cardinality(customers) = 2
    /\ \E c \in customers : c.customer_id # returned.value.customer_id /\ c.name = "n1"

(***************************************************************************)
(* Properties of the helpers (SpecExtract, SpecSanitize)                   *)
(***************************************************************************)

\* The content of the last element of seq that satisfies Is, "" if none.
LastContent(seq, Is(_)) ==
    IF \E i \in 1 .. Len(seq) : Is(seq[i])
      THEN LET last == CHOOSE i \in 1 .. Len(seq) :
                         /\ Is(seq[i])
                         /\ \A j \in i + 1 .. Len(seq) : ~Is(seq[j])
           IN  seq[last].content
      ELSE ""

IsAIMessage(msg) == msg.type = "AIMessage"

IsAssistantEntry(entry) == entry.role = "assistant"

\* C24: the `message` of a /chat response is the content of the last
\* AIMessage of the executor's result list, "" when there is none; it
\* equals the content of the last assistant entry of the returned
\* conversation_history and extract_last_ai_message() of the same list.
C24_MessageIsLastAssistant ==
    extracted.done =>
    /\ extracted.message = LastContent(extracted.messages, IsAIMessage)
    /\ extracted.message
         = LastContent(extracted.conversation_history, IsAssistantEntry)
    /\ extracted.message = extracted.last_ai

\* A result with two assistant messages and a tool message after them:
\* the response carries the second.
C24_Witness ==
    /\ extracted.done
    /\ extracted.messages = <<AIMessage("c1"), AIMessage("c2"), ToolMessage("c1")>>
    /\ extracted.message = "c2"
    /\ Len(extracted.conversation_history) = 2

\* C25: for every message and every max_length >= 0, sanitize_message
\* returns a string of at most max_length characters with no leading and
\* no trailing whitespace.
C25_SanitizedIsStrippedAndBounded ==
    LET r == sanitized.result
    IN  sanitized.done =>
        /\ Len(r) <= sanitized.max_length
        /\ r # <<>> => (r[1] \notin Whitespace /\ r[Len(r)] \notin Whitespace)

====
